---- MODULE Spec2Model ----
(***************************************************************************)
(* Model of the simulation step of shooty (src/src/main.rs):               *)
(* MainState::update together with Obj and Bullet.                         *)
(*                                                                         *)
(* f32 quantities are fixed-point integers.  Units:                        *)
(*   time      1/120 s          (so DELTA = 1/60 s = 2)                    *)
(*   length    1/96 px          (so WIDTH = 1200 px = 115200)              *)
(*   velocity  length / time    (470 px/s = 376)                           *)
(*   angle     1/12000 rad      (5.53 rad/s = 553 per time unit)           *)
(* With these units every constant of the source is an integer and         *)
(* pos += vel * DELTA is exact.  Quotients are rounded to the nearest      *)
(* unit.  The one non-finite value the code can produce, NaN, is a         *)
(* distinguished value that the arithmetic propagates as IEEE 754 does.    *)
(***************************************************************************)
EXTENDS Integers, Sequences, FiniteSets, TLC

VARIABLES ship, bullets, crates, splinters, crate_spawn_time, bounce_edge,
          calls, obs

vars == <<ship, bullets, crates, splinters, crate_spawn_time, bounce_edge,
          calls, obs>>

-----------------------------------------------------------------------------
(* Constants of the source, in the units above.                            *)

\* const WIDTH: f32 = 1200.
WIDTH == 115200
\* const HEIGHT: f32 = 900.
HEIGHT == 86400
\* const CRATE_LIMIT: usize = 200
CRATE_LIMIT == 200
\* const ROT_SPEED: f32 = 5.53 (rad/s)
ROT_SPEED == 553
\* const ACCELERATION: f32 = 150. (px/s^2)
ACCELERATION == 1
\* const CRATE_SPAWN_RATE: f32 = 0.65 (s)
CRATE_SPAWN_RATE == 78
\* const BULLET_SPEED: f32 = 470. (px/s)
BULLET_SPEED == 376
\* const CRATE_BULLET_COLLIDE_DIST: f32 = 16.+8. (px)
CRATE_BULLET_COLLIDE_DIST == 2304
\* const DELTA: f32 = 1./60. (s)
DELTA == 2
\* const W: f32 = 32. in Obj::resolve (px)
RESOLVE_W == 3072
\* const W: f32 = 16. in the bounce branch (px)
BOUNCE_W == 1536
\* the literal 160. of the spawn check (px)
SPAWN_MIN_DIST == 15360
\* the literal 20. of the muzzle offset (px)
MUZZLE_DIST == 1920
\* const D: f32 = 8. (px)
SPLINTER_D == 768
\* const DV: f32 = 50. (px/s)
SPLINTER_DV == 40
\* the literal 20. in crate_spawn_time: -CRATE_SPAWN_RATE * 20.
INITIAL_BACKLOG == 20
\* std::f32::consts::TAU (rad)
TAU == 75398
\* random_range(4.5 .. 6.2) (s): the bullet ttl range [lo, hi)
BULLET_TTL_LO == 540
BULLET_TTL_HI == 744
\* random_range(1.6 .. 4.2) (s): the splinter ttl range [lo, hi)
SPLINTER_TTL_LO == 192
SPLINTER_TTL_HI == 504
\* random_range(-150. .. 150.) (px/s): the crate velocity range [-v, v)
CRATE_VEL == 120
\* random_range(-3. .. 3.) (rad/s): the angular velocity range [-w, w)
CRATE_ROT_V == 300

\* Fixed-point scale of unit vectors (angle_to_vec, normalize_or_zero).
ONE == 1000
\* Angle units per radian.
RAD == 12000

-----------------------------------------------------------------------------
(* f32 arithmetic.                                                         *)

\* The f32 NaN: the result of 0/0 and of inf * 0.
NaN == -1000000000

IsNaN(a) == a = NaN

Abs(a) == IF a < 0 THEN -a ELSE a

\* a / b for b > 0, rounded to the nearest unit.
RDiv(a, b) == (2 * a + b) \div (2 * b)

FAdd(a, b) == IF IsNaN(a) \/ IsNaN(b) THEN NaN ELSE a + b
FSub(a, b) == IF IsNaN(a) \/ IsNaN(b) THEN NaN ELSE a - b
FMul(a, b) == IF IsNaN(a) \/ IsNaN(b) THEN NaN ELSE a * b
\* a * n / d with finite n and d > 0.
FScale(a, n, d) == IF IsNaN(a) THEN NaN ELSE RDiv(a * n, d)
\* Comparisons with NaN are false.
FLt(a, b) == ~IsNaN(a) /\ ~IsNaN(b) /\ a < b
FGe(a, b) == ~IsNaN(a) /\ ~IsNaN(b) /\ a >= b
\* f32::abs
FAbs(a) == IF IsNaN(a) THEN NaN ELSE Abs(a)
\* f32::rem_euclid with a positive modulus
RemEuclid(a, m) == IF IsNaN(a) THEN NaN ELSE a % m

\* f32::sqrt of a finite n >= 0, rounded to the nearest unit.
RECURSIVE SqrtFloor(_, _, _)
SqrtFloor(n, lo, hi) ==
    IF lo >= hi THEN lo
    ELSE LET mid == (lo + hi + 1) \div 2
         IN  IF mid * mid <= n THEN SqrtFloor(n, mid, hi)
                               ELSE SqrtFloor(n, lo, mid - 1)
Sqrt(n) ==
    LET r == SqrtFloor(n, 0, 46340)
    IN  IF n - r * r > r THEN r + 1 ELSE r

-----------------------------------------------------------------------------
(* glam Vec2, as used by the source.                                       *)

Vec(x, y) == [x |-> x, y |-> y]
ZERO == Vec(0, 0)
VNaN(v) == IsNaN(v.x) \/ IsNaN(v.y)
VAdd(a, b) == Vec(FAdd(a.x, b.x), FAdd(a.y, b.y))
VSub(a, b) == Vec(FSub(a.x, b.x), FSub(a.y, b.y))
\* v * n / d
VScale(v, n, d) == Vec(FScale(v.x, n, d), FScale(v.y, n, d))
Dot(a, b) == FAdd(FMul(a.x, b.x), FMul(a.y, b.y))
\* Vec2::length_squared() < r * r and >= r * r for a finite r > 0; the
\* components are compared with r first, so that no square leaves the
\* integer range.
LengthSquaredLt(d, r) ==
    /\ ~VNaN(d)
    /\ Abs(d.x) < r
    /\ Abs(d.y) < r
    /\ d.x * d.x + d.y * d.y < r * r
LengthSquaredGe(d, r) ==
    /\ ~VNaN(d)
    /\ \/ Abs(d.x) >= r
       \/ Abs(d.y) >= r
       \/ d.x * d.x + d.y * d.y >= r * r
\* Vec2::normalize_or_zero, scaled by ONE: the zero vector for a zero or
\* non-finite length.
NormalizeOrZero(v) ==
    IF VNaN(v) \/ v = ZERO THEN ZERO
    ELSE LET len == Sqrt(v.x * v.x + v.y * v.y)
         IN  Vec(RDiv(v.x * ONE, len), RDiv(v.y * ONE, len))
\* Vec2::rotate: rhs rotated by the angle of self (both scaled by ONE).
Rotate(self, rhs) ==
    Vec(RDiv(self.x * rhs.x - self.y * rhs.y, ONE),
        RDiv(self.y * rhs.x + self.x * rhs.y, ONE))

\* angle_to_vec: (cos, sin) of an angle, scaled by ONE (Taylor polynomials,
\* exact to the unit for the angles the ship reaches in the model).
angle_to_vec(angle) ==
    LET t1 == RDiv(angle * ONE, RAD)
        t2 == RDiv(t1 * t1, ONE)
        t3 == RDiv(t2 * t1, ONE)
        t4 == RDiv(t2 * t2, ONE)
    IN  Vec(ONE - RDiv(t2, 2) + RDiv(t4, 24), t1 - RDiv(t3, 6))

-----------------------------------------------------------------------------
(* struct Obj and struct Bullet.                                           *)

MakeObj(pos, vel, rot, rot_v) ==
    [pos |-> pos, vel |-> vel, rot |-> rot, rot_v |-> rot_v]

\* Obj::new
ObjNew(x, y) == MakeObj(Vec(x, y), ZERO, 0, 0)
\* Obj::from
ObjFrom(pos, vel, rot) == MakeObj(pos, vel, rot, 0)
\* Obj::with
ObjWith(x, y, vx, vy, rot, rot_v) == MakeObj(Vec(x, y), Vec(vx, vy), rot, rot_v)

\* Obj::bullet.  ttl0, age and tick0 are history fields the code does not
\* have: the ttl the projectile was created with, the number of times its
\* ttl has been decremented, and whether the update that created it was a
\* tick.
MakeBullet(obj, ttl, tick0) ==
    [obj |-> obj, ttl |-> ttl, ttl0 |-> ttl, age |-> 0, tick0 |-> tick0]

\* Obj::pushed; r_rot and r_rot_v are the two random draws.
Pushed(self, dx, dy, dvx, dvy, r_rot, r_rot_v) ==
    MakeObj(VAdd(self.pos, Vec(dx, dy)), VAdd(self.vel, Vec(dvx, dvy)),
            self.rot + r_rot, self.rot_v + r_rot_v)

\* The velocity exchange of Obj::resolve:
\*   (a.vel - b.vel).dot(d) / dist_sq * d
\* With dist_sq = 0 the quotient is 0/0 or NaN/0, which is NaN.
ResolveDv(a, b, d, dist_sq) ==
    IF dist_sq = 0 THEN Vec(NaN, NaN)
    ELSE LET k == FScale(Dot(VSub(a.vel, b.vel), d), 1024, dist_sq)
         IN  Vec(FScale(FMul(k, d.x), 1, 1024), FScale(FMul(k, d.y), 1, 1024))

\* The de-penetration of Obj::resolve: 0.5 * (W / dist - 1.) * d.
\* With dist = 0, W / dist is +inf and d is zero: inf * 0 is NaN.
ResolveDp(d, dist) ==
    IF dist = 0 THEN Vec(NaN, NaN)
    ELSE Vec(RDiv(d.x * (RESOLVE_W - dist), 2 * dist),
             RDiv(d.y * (RESOLVE_W - dist), 2 * dist))

\* The test of Obj::resolve: if dist_sq < W * W.  (The first conjunct is
\* implied by the second; it settles most pairs at once.)
Touching(a, b) ==
    /\ FLt(FAbs(FSub(a.pos.x, b.pos.x)), RESOLVE_W)
    /\ LengthSquaredLt(VSub(a.pos, b.pos), RESOLVE_W)

\* Obj::resolve(&mut self, other: &mut Self): the pair <<self, other>> after
\* the call.
Resolve(a, b) ==
    LET d == VSub(a.pos, b.pos)
    IN  IF Touching(a, b)
        THEN LET dist_sq == d.x * d.x + d.y * d.y
                 dv == ResolveDv(a, b, d, dist_sq)
                 dp == ResolveDp(d, Sqrt(dist_sq))
             IN  << [a EXCEPT !.vel = VSub(a.vel, dv), !.pos = VAdd(a.pos, dp)],
                    [b EXCEPT !.vel = VAdd(b.vel, dv), !.pos = VSub(b.pos, dp)] >>
        ELSE << a, b >>

\* Vec::remove(i), 1-based.  (An index out of range panics in Rust; the
\* code never passes one.)
RemoveAt(seq, i) ==
    IF i \in 1..Len(seq)
    THEN SubSeq(seq, 1, i - 1) \o SubSeq(seq, i + 1, Len(seq))
    ELSE seq

\* A variant that takes the indices from the first to the last, without
\* .rev(): every removal shifts the elements behind it.
RECURSIVE RemoveFwd(_, _, _)
RemoveFwd(seq, indices, k) ==
    IF indices = << >> THEN seq
    ELSE RemoveFwd(RemoveAt(seq, Head(indices)), Tail(indices), k - 1)

\* indices.rev().for_each(|i| seq.remove(i)): the indices taken from the
\* last to the first.
RECURSIVE RemoveRev(_, _, _)
RemoveRev(seq, indices, k) ==
    IF k = 0 THEN seq
    ELSE RemoveRev(RemoveAt(seq, indices[k]), indices, k - 1)

-----------------------------------------------------------------------------
(* MainState::update, phase by phase.  A state s of the simulation is the  *)
(* record of the fields of MainState; r is the record of the random draws  *)
(* of one call; keys is the set of keys down (A D W S E Q LShift) or just  *)
(* pressed (Space C B) in this call.                                       *)

MainStateOf(sh, bs, cs, sps, t, be) ==
    [ship |-> sh, bullets |-> bs, crates |-> cs, splinters |-> sps,
     crate_spawn_time |-> t, bounce_edge |-> be]

\* The distance test of the spawn check.
SpawnAccepts(ship_pos, cand) ==
    LengthSquaredGe(VSub(ship_pos, cand), SPAWN_MIN_DIST)

\* A variant of the spawn check that does not test the distance to the
\* ship.
SpawnCheckAnywhere(s, r) ==
    IF s.crate_spawn_time <= 0
    THEN [s EXCEPT !.crate_spawn_time = @ + CRATE_SPAWN_RATE,
                   !.crates = Append(@, ObjWith(r.cand.x, r.cand.y, r.vel.x, r.vel.y,
                                                r.rot, r.rot_v))]
    ELSE s

\* The spawn check at the head of update, before the tick gate.
SpawnCheck(s, r) ==
    IF s.crate_spawn_time <= 0 /\ SpawnAccepts(s.ship.pos, r.cand)
    THEN [s EXCEPT !.crate_spawn_time = @ + CRATE_SPAWN_RATE,
                   !.crates = Append(@, ObjWith(r.cand.x, r.cand.y, r.vel.x, r.vel.y,
                                                r.rot, r.rot_v))]
    ELSE s

\* The countdown: it runs only while there are fewer crates than the limit.
Countdown(s) ==
    IF Len(s.crates) < CRATE_LIMIT
    THEN [s EXCEPT !.crate_spawn_time = @ - DELTA]
    ELSE s

\* bullet.ttl -= DELTA for every element.
Decay(seq) ==
    [i \in 1..Len(seq) |-> [seq[i] EXCEPT !.ttl = @ - DELTA, !.age = @ + 1]] \o << >>

\* A variant with the strict test, if bullet.ttl < 0.
ExpiredBelowZero(b) == b.ttl < 0

\* if bullet.ttl <= 0.
Expired(b) == b.ttl <= 0

\* The indices pushed to deads, in the order of the enumeration.
RECURSIVE DeadIndices(_, _)
DeadIndices(seq, i) ==
    IF i > Len(seq) THEN << >>
    ELSE (IF Expired(seq[i]) THEN << i >> ELSE << >>) \o DeadIndices(seq, i + 1)

\* What deads holds after deads.drain(..): nothing.
Drained(deads) == << >>

\* Ttl decay and pruning of bullets, then of splinters, with the one
\* deads vector.
Lifecycle(s) ==
    LET bs == Decay(s.bullets)
        deads_b == DeadIndices(bs, 1)
        sps == Decay(s.splinters)
        deads_s == Drained(deads_b) \o DeadIndices(sps, 1)
    IN  [s EXCEPT !.bullets = RemoveRev(bs, deads_b, Len(deads_b)),
                  !.splinters = RemoveRev(sps, deads_s, Len(deads_s))]

\* A variant that creates the bullet at the ship's position, without the
\* 20 px along the facing.
FiredBulletAtShip(sh, ttl) ==
    LET dir == angle_to_vec(sh.rot)
    IN  MakeBullet(ObjFrom(sh.pos, VAdd(sh.vel, VScale(dir, BULLET_SPEED, ONE)),
                           sh.rot),
                   ttl, TRUE)

\* The bullet a press of Space creates.
FiredBullet(sh, ttl) ==
    LET dir == angle_to_vec(sh.rot)
    IN  MakeBullet(ObjFrom(VAdd(sh.pos, VScale(dir, MUZZLE_DIST, ONE)),
                           VAdd(sh.vel, VScale(dir, BULLET_SPEED, ONE)),
                           sh.rot),
                   ttl, TRUE)

\* Space, C and B just pressed.
Fire(s, keys, r) ==
    IF "Space" \in keys
    THEN [s EXCEPT !.bullets = Append(@, FiredBullet(s.ship, r.bullet_ttl))]
    ELSE s
ForceSpawn(s, keys) ==
    IF "C" \in keys
    THEN [s EXCEPT !.crate_spawn_time = @ - CRATE_SPAWN_RATE]
    ELSE s
ToggleBounce(s, keys) ==
    IF "B" \in keys THEN [s EXCEPT !.bounce_edge = ~@] ELSE s

\* A and D held.
Turn(sh, keys) ==
    LET a == IF "A" \in keys THEN sh.rot - ROT_SPEED * DELTA ELSE sh.rot
    IN  [sh EXCEPT !.rot = IF "D" \in keys THEN a + ROT_SPEED * DELTA ELSE a]

\* W S E Q held: wish_dir.normalize_or_zero(), scaled by ONE.
WishDir(keys) ==
    NormalizeOrZero(
        Vec((IF "W" \in keys THEN 1 ELSE 0) - (IF "S" \in keys THEN 1 ELSE 0),
            (IF "E" \in keys THEN 1 ELSE 0) - (IF "Q" \in keys THEN 1 ELSE 0)))

\* f32::max(self, 0.): a NaN operand is ignored.
FMax0(a) == IF IsNaN(a) \/ a < 0 THEN 0 ELSE a

\* LShift held.
Brake(sh, keys) ==
    IF "LShift" \in keys
    THEN LET dir == angle_to_vec(sh.rot)
             along == FMax0(FScale(Dot(sh.vel, dir), 1, ONE))
             velocity_to_cancel == VSub(sh.vel, VScale(dir, along, ONE))
         IN  [sh EXCEPT !.vel = VSub(@, VScale(NormalizeOrZero(velocity_to_cancel),
                                               ACCELERATION * DELTA, ONE))]
    ELSE sh

\* if wish_dir != Vec2::ZERO
Thrust(sh, keys) ==
    LET wish_dir == WishDir(keys)
    IN  IF wish_dir # ZERO
        THEN [sh EXCEPT !.vel = VAdd(@, VScale(Rotate(angle_to_vec(sh.rot), wish_dir),
                                               ACCELERATION * DELTA, ONE))]
        ELSE sh

ShipControl(sh, keys) == Thrust(Brake(Turn(sh, keys), keys), keys)

\* The body of if ctx.time.check_update_time(60) { ... }.
TickWork(s, keys, r) ==
    LET s1 == ToggleBounce(ForceSpawn(Fire(Lifecycle(Countdown(s)), keys, r), keys), keys)
    IN  [s1 EXCEPT !.ship = ShipControl(@, keys)]

-----------------------------------------------------------------------------
(* The part of update after the tick gate: it runs in every call.          *)

\* The bounce branch: the velocity is turned inward, the position is kept.
Bounce(obj) ==
    LET vx == IF FLt(obj.pos.x, BOUNCE_W) THEN FAbs(obj.vel.x)
              ELSE IF FGe(obj.pos.x, WIDTH - BOUNCE_W)
                   THEN FSub(0, FAbs(obj.vel.x))
                   ELSE obj.vel.x
        vy == IF FLt(obj.pos.y, BOUNCE_W) THEN FAbs(obj.vel.y)
              ELSE IF FGe(obj.pos.y, HEIGHT - BOUNCE_W)
                   THEN FSub(0, FAbs(obj.vel.y))
                   ELSE obj.vel.y
    IN  [obj EXCEPT !.vel = Vec(vx, vy)]

\* The wrap branch.
Wrap(obj) ==
    [obj EXCEPT !.pos = Vec(RemEuclid(obj.pos.x, WIDTH), RemEuclid(obj.pos.y, HEIGHT))]

\* The body of for obj in iter { ... }.
Integrate(obj, be) ==
    LET moved == [obj EXCEPT !.pos = VAdd(@, VScale(obj.vel, DELTA, 1)),
                             !.rot = @ + obj.rot_v * DELTA]
    IN  IF be THEN Bounce(moved) ELSE Wrap(moved)

\* The loop over ship, bullets, crates and splinters.
IntegrateAll(s) ==
    [s EXCEPT
       !.ship = Integrate(@, s.bounce_edge),
       !.bullets = [i \in 1..Len(@) |->
                       [@[i] EXCEPT !.obj = Integrate(@, s.bounce_edge)]] \o << >>,
       !.crates = [i \in 1..Len(@) |-> Integrate(@[i], s.bounce_edge)] \o << >>,
       !.splinters = [i \in 1..Len(@) |->
                       [@[i] EXCEPT !.obj = Integrate(@, s.bounce_edge)]] \o << >>]

\* The inner loop: the index of the first crate within the collision
\* distance of the bullet, 0 for none.
FirstHit(bullet, cs) ==
    LET near == {c \in 1..Len(cs) :
                    LengthSquaredLt(VSub(bullet.obj.pos, cs[c].pos),
                                    CRATE_BULLET_COLLIDE_DIST)}
    IN  IF near = {} THEN 0 ELSE CHOOSE c \in near : \A e \in near : c <= e

\* A variant that leaves out the splinter pushed along -y.
ThreeSplinters(crat, r, gate) ==
    << MakeBullet(Pushed(crat, SPLINTER_D, 0, SPLINTER_DV, 0,
                         r.push_rot, r.push_rot_v), r.splinter_ttl[1], gate),
       MakeBullet(Pushed(crat, -SPLINTER_D, 0, -SPLINTER_DV, 0,
                         r.push_rot, r.push_rot_v), r.splinter_ttl[2], gate),
       MakeBullet(Pushed(crat, 0, SPLINTER_D, 0, SPLINTER_DV,
                         r.push_rot, r.push_rot_v), r.splinter_ttl[3], gate) >>

\* The four splinters of a destroyed crate.
Splinters(crat, r, gate) ==
    << MakeBullet(Pushed(crat, SPLINTER_D, 0, SPLINTER_DV, 0,
                         r.push_rot, r.push_rot_v), r.splinter_ttl[1], gate),
       MakeBullet(Pushed(crat, -SPLINTER_D, 0, -SPLINTER_DV, 0,
                         r.push_rot, r.push_rot_v), r.splinter_ttl[2], gate),
       MakeBullet(Pushed(crat, 0, SPLINTER_D, 0, SPLINTER_DV,
                         r.push_rot, r.push_rot_v), r.splinter_ttl[3], gate),
       MakeBullet(Pushed(crat, 0, -SPLINTER_D, 0, -SPLINTER_DV,
                         r.push_rot, r.push_rot_v), r.splinter_ttl[4], gate) >>

\* A variant in which a hit leaves the crate in the list until the scan
\* is over.
LeaveCrate(cs, c) == cs

\* What a hit does to the crates: self.crates.remove(c), at once.
TakeCrate(cs, c) == RemoveAt(cs, c)

\* The outer loop from bullet b on.  acc holds the crates and splinters as
\* they stand, dead_bullets, and scans: for every bullet scanned so far,
\* the crates its inner loop ran over and the index it found (history).
RECURSIVE ScanBullets(_, _, _, _, _)
ScanBullets(bs, b, acc, r, gate) ==
    IF b > Len(bs) THEN acc
    ELSE LET c == FirstHit(bs[b], acc.crates)
             scan == [seen |-> acc.crates, hit |-> c]
         IN  IF c = 0
             THEN ScanBullets(bs, b + 1,
                              [acc EXCEPT !.scans = Append(@, scan)], r, gate)
             ELSE LET crat == [acc.crates[c] EXCEPT
                                 !.vel = VAdd(@, VScale(bs[b].obj.vel, 2, 5))]
                  IN  ScanBullets(bs, b + 1,
                          [crates |-> TakeCrate(acc.crates, c),
                           splinters |-> acc.splinters \o Splinters(crat, r, gate),
                           dead_bullets |-> Append(acc.dead_bullets, b),
                           scans |-> Append(acc.scans, scan)],
                          r, gate)

\* Bullet/crate destruction; the result keeps the scans.
BulletPhase(s, r, gate) ==
    LET acc == ScanBullets(s.bullets, 1,
                           [crates |-> s.crates, splinters |-> s.splinters,
                            dead_bullets |-> << >>, scans |-> << >>],
                           r, gate)
    IN  [state |-> [s EXCEPT !.bullets = RemoveRev(@, acc.dead_bullets,
                                                   Len(acc.dead_bullets)),
                             !.crates = acc.crates,
                             !.splinters = acc.splinters],
         scans |-> acc.scans]

\* self.crates.compare_self_mut(Obj::resolve): every pair i < j once, row
\* by row.  A call of resolve on a pair that does not touch changes
\* nothing, so a row, or a whole pass, without a touching pair is skipped.
RECURSIVE ResolveRow(_, _, _)
ResolveRow(cs, i, j) ==
    IF \A k \in j..Len(cs) : ~Touching(cs[i], cs[k]) THEN cs
    ELSE LET p == Resolve(cs[i], cs[j])
         IN  ResolveRow([cs EXCEPT ![i] = p[1], ![j] = p[2]], i, j + 1)
RECURSIVE CompareSelfMutFrom(_, _)
CompareSelfMutFrom(cs, i) ==
    IF i >= Len(cs) THEN cs
    ELSE CompareSelfMutFrom(ResolveRow(cs, i, i + 1), i + 1)
CompareSelfMut(cs) ==
    IF \A i \in 1..Len(cs) : \A j \in (i + 1)..Len(cs) : ~Touching(cs[i], cs[j])
    THEN cs
    ELSE CompareSelfMutFrom(cs, 1)

\* self.crates.iter_mut().for_each(|c| self.ship.resolve(c)), from crate i
\* on: the pair <<ship, crates>>.
RECURSIVE ShipResolve(_, _, _)
ShipResolve(sh, cs, i) ==
    IF \A k \in i..Len(cs) : ~Touching(sh, cs[k]) THEN << sh, cs >>
    ELSE LET p == Resolve(sh, cs[i])
         IN  ShipResolve(p[1], [cs EXCEPT ![i] = p[2]], i + 1)

\* The two resolution passes.
ResolveAll(s) ==
    LET p == ShipResolve(s.ship, CompareSelfMut(s.crates), 1)
    IN  [s EXCEPT !.ship = p[1], !.crates = p[2]]

-----------------------------------------------------------------------------
(* The state machine.  calls counts the calls of update.  obs is history:  *)
(* what the last call of update was given and what it went through.        *)

NoKeys == {}

NoObs ==
    [gate |-> FALSE, keys |-> NoKeys, prev_keys |-> NoKeys,
     cand |-> ZERO, ship0 |-> ObjNew(WIDTH \div 2, HEIGHT \div 2),
     spawn_eval |-> FALSE, time0 |-> 0, time1 |-> 0, crates0 |-> 0, crates1 |-> 0,
     decayed_b |-> << >>, pruned_b |-> << >>,
     decayed_s |-> << >>, pruned_s |-> << >>,
     pre_b |-> << >>, pre_c |-> << >>, pre_s |-> << >>, scans |-> << >>]

\* MainState::new
Init ==
    /\ ship = ObjNew(WIDTH \div 2, HEIGHT \div 2)
    /\ bullets = << >>
    /\ crates = << >>
    /\ splinters = << >>
    /\ crate_spawn_time = -CRATE_SPAWN_RATE * INITIAL_BACKLOG
    /\ bounce_edge = FALSE
    /\ calls = 0
    /\ obs = NoObs

\* One call of MainState::update.  gate is the result of
\* ctx.time.check_update_time(60).
Update(gate, keys, r) ==
    LET s0 == MainStateOf(ship, bullets, crates, splinters,
                          crate_spawn_time, bounce_edge)
        s1 == SpawnCheck(s0, r)
        s2 == IF gate THEN TickWork(s1, keys, r) ELSE s1
        s3 == IntegrateAll(s2)
        bp == BulletPhase(s3, r, gate)
        s5 == ResolveAll(bp.state)
        life == Lifecycle(Countdown(s1))
    IN  /\ ship' = s5.ship
        /\ bullets' = s5.bullets
        /\ crates' = s5.crates
        /\ splinters' = s5.splinters
        /\ crate_spawn_time' = s5.crate_spawn_time
        /\ bounce_edge' = s5.bounce_edge
        /\ calls' = calls + 1
        /\ obs' = [gate |-> gate,
                   keys |-> IF gate THEN keys ELSE NoKeys,
                   prev_keys |-> obs.keys,
                   cand |-> IF crate_spawn_time <= 0 THEN r.cand ELSE ZERO,
                   ship0 |-> ship,
                   spawn_eval |-> crate_spawn_time <= 0,
                   time0 |-> crate_spawn_time,
                   time1 |-> s1.crate_spawn_time,
                   crates0 |-> Len(crates),
                   crates1 |-> Len(s1.crates),
                   decayed_b |-> IF gate THEN Decay(s1.bullets) ELSE << >>,
                   pruned_b |-> IF gate THEN life.bullets ELSE << >>,
                   decayed_s |-> IF gate THEN Decay(s1.splinters) ELSE << >>,
                   pruned_s |-> IF gate THEN life.splinters ELSE << >>,
                   pre_b |-> s3.bullets,
                   pre_c |-> s3.crates,
                   pre_s |-> s3.splinters,
                   scans |-> bp.scans]

-----------------------------------------------------------------------------
(* The inputs of a call.  The random draws are taken from a few values of  *)
(* their ranges.                                                           *)

\* Bounds of the models.
MaxCalls == 3

\* The draws of one call: the spawn candidate and the crate's velocity, the
\* bullet's ttl and the four splinters' ttls; the rotations are fixed.
Rnd(cand, vel, bullet_ttl, splinter_ttl) ==
    [cand |-> cand, vel |-> vel, rot |-> 0, rot_v |-> -CRATE_ROT_V,
     bullet_ttl |-> bullet_ttl, splinter_ttl |-> splinter_ttl,
     push_rot |-> TAU - 1, push_rot_v |-> CRATE_ROT_V - 1]

\* The arena centre, where the ship starts: a candidate the spawn check
\* rejects while the ship is within 160 px of it.
Centre == Vec(WIDTH \div 2, HEIGHT \div 2)
\* Two candidates 2 px and 22 px from the left edge, 20 px apart.
EdgeA == Vec(192, 9600)
EdgeB == Vec(2112, 9600)
Candidates == {Centre, EdgeA, EdgeB}
CrateVels == {ZERO, Vec(-CRATE_VEL, 0)}
SplinterTtls == << SPLINTER_TTL_LO, SPLINTER_TTL_LO + 1,
                   SPLINTER_TTL_HI - 1, SPLINTER_TTL_LO >>
SpawnKeys == {NoKeys, {"C"}}

\* An update in which the tick gate fires.
Tick ==
    /\ calls < MaxCalls
    /\ \E keys \in SpawnKeys, cand \in Candidates, vel \in CrateVels :
          Update(TRUE, keys, Rnd(cand, vel, BULLET_TTL_LO, SplinterTtls))

\* An update between two ticks: the gate does not fire.
Frame ==
    /\ calls < MaxCalls
    /\ \E cand \in Candidates, vel \in CrateVels :
          Update(FALSE, NoKeys, Rnd(cand, vel, BULLET_TTL_LO, SplinterTtls))

Next == Tick \/ Frame

Spec == Init /\ [][Next]_vars

-----------------------------------------------------------------------------
(* The crate cap: a run that presses C in every tick, each crate spawned   *)
(* at rest on its own point of a grid of 40 px, all more than 160 px from  *)
(* the ship.                                                               *)

\* The calls in which the run may also leave C alone or skip the tick.
CapWindow == 1

CapCandidate(n) == Vec(1920 + 3840 * (n % 30), 1920 + 3840 * (n \div 30))

CapTick ==
    /\ Len(crates) <= CRATE_LIMIT
    /\ \E keys \in (IF calls < CapWindow THEN SpawnKeys ELSE {{"C"}}) :
          Update(TRUE, keys,
                 Rnd(CapCandidate(Len(crates)), ZERO, BULLET_TTL_LO, SplinterTtls))

CapFrame ==
    /\ Len(crates) <= CRATE_LIMIT
    /\ calls < CapWindow
    /\ Update(FALSE, NoKeys,
              Rnd(CapCandidate(Len(crates)), ZERO, BULLET_TTL_LO, SplinterTtls))

NextCap == CapTick \/ CapFrame

SpecCap == Init /\ [][NextCap]_vars

\* C1: the number of obstacles never exceeds CRATE_LIMIT, whatever the
\* keys and the spawn candidates.
C1_CrateCap == Len(crates) <= CRATE_LIMIT

-----------------------------------------------------------------------------
(* Claims about spawning, the arena and the tick gate (Spec).              *)

\* Every body of the simulation: the ship, the bullets, the crates, the
\* splinters.
Bodies ==
    {ship} \cup {bullets[i].obj : i \in 1..Len(bullets)}
           \cup {crates[i] : i \in 1..Len(crates)}
           \cup {splinters[i].obj : i \in 1..Len(splinters)}

InArena(obj) ==
    /\ FGe(obj.pos.x, 0) /\ FLt(obj.pos.x, WIDTH)
    /\ FGe(obj.pos.y, 0) /\ FLt(obj.pos.y, HEIGHT)

\* C2: under the wrap policy every body is inside the arena at the end of
\* every update, bodies moved by de-penetration and new splinters included.
C2_WrapKeepsBodiesInArena ==
    ~bounce_edge => \A obj \in Bodies : InArena(obj)

\* C6: an update in which the tick gate does not fire leaves the bodies
\* and the collections as they were.
C6_FrameLeavesBodiesAlone ==
    [][(calls' = calls + 1 /\ ~obs'.gate)
         => /\ ship' = ship
            /\ bullets' = bullets
            /\ crates' = crates
            /\ splinters' = splinters]_vars

\* C7: no non-finite value is ever written into a position or a velocity
\* (resolve is guarded against coincident centres).
C7_NoNonFiniteValue ==
    \A obj \in Bodies : ~VNaN(obj.pos) /\ ~VNaN(obj.vel)

\* The last update evaluated the spawn check on a candidate within the
\* minimum radius of the ship.
RejectedCandidate ==
    /\ calls > 0
    /\ obs.spawn_eval
    /\ ~SpawnAccepts(obs.ship0.pos, obs.cand)

\* The update before the last one took a force-spawn press.
AfterForceSpawn == "C" \in obs.prev_keys

\* C10 as amended: a spawn evaluation whose candidate lies within the
\* minimum radius creates no obstacle and leaves crate_spawn_time
\* unchanged, also when it is the first evaluation after a force-spawn.
C10_RejectedCandidateSpawnsNothing ==
    RejectedCandidate => /\ obs.crates1 = obs.crates0
                         /\ obs.time1 = obs.time0

\* C10 as stated: ... except that the evaluation after a force-spawn
\* creates an obstacle although the candidate is within the radius.
C10_ForceSpawnBypassesDistance ==
    RejectedCandidate =>
        IF AfterForceSpawn
        THEN obs.crates1 = obs.crates0 + 1
        ELSE obs.crates1 = obs.crates0 /\ obs.time1 = obs.time0

\* A candidate is rejected in the update that follows a force-spawn, with
\* the countdown one interval lower than that press found it.
C10_Witness ==
    /\ RejectedCandidate
    /\ AfterForceSpawn
    /\ obs.time0 <= -CRATE_SPAWN_RATE * INITIAL_BACKLOG - CRATE_SPAWN_RATE

-----------------------------------------------------------------------------
(* Ship control and firing (SpecShip): every spawn candidate is the arena  *)
(* centre, which the spawn check rejects, so the ship is alone.            *)

MaxShipCalls == 3

ShipKeys ==
    {NoKeys, {"Space"}, {"A"}, {"D"}, {"W"}, {"S"}, {"E"}, {"Q"}, {"LShift"}, {"B"},
     {"Space", "A"}, {"Space", "W"}, {"W", "E"}, {"S", "Q", "LShift"}}
BulletTtls == {BULLET_TTL_LO, BULLET_TTL_HI - 1}

ShipTick ==
    /\ calls < MaxShipCalls
    /\ \E keys \in ShipKeys, ttl \in BulletTtls :
          /\ ("Space" \notin keys => ttl = BULLET_TTL_LO)
          /\ Update(TRUE, keys, Rnd(Centre, ZERO, ttl, SplinterTtls))

ShipFrame ==
    /\ calls < MaxShipCalls
    /\ Update(FALSE, NoKeys, Rnd(Centre, ZERO, BULLET_TTL_LO, SplinterTtls))

NextShip == ShipTick \/ ShipFrame

SpecShip == Init /\ [][NextShip]_vars

\* The last update was a tick in which the fire key was just pressed.
Fired == calls > 0 /\ obs.gate /\ "Space" \in obs.keys

\* The bullet fired in the last update met a crate in that same update.
FiredBulletHit == obs.scans[Len(obs.pre_b)].hit # 0

\* The facing of the ship at the moment of firing.
Facing0 == angle_to_vec(obs.ship0.rot)

\* C8 as amended: a press of the fire key adds exactly one bullet, created
\* at ship.position + facing*20 with velocity ship.velocity + facing*470,
\* the ship's rotation, no angular velocity and a ttl in [4.5, 6.2), the
\* ship's values being those at the moment of firing; unless it destroys
\* an obstacle in that same update, it is the last bullet at the end of
\* the tick, advanced by the one integration step (and the boundary
\* handling) of that update.
C8_FiredBulletAfterOneStep ==
    Fired =>
      /\ Len(obs.pre_b) = Len(obs.pruned_b) + 1
      /\ ~FiredBulletHit =>
           /\ bullets # << >>
           /\ LET b == bullets[Len(bullets)]
                  pos0 == VAdd(obs.ship0.pos, VScale(Facing0, MUZZLE_DIST, ONE))
                  vel0 == VAdd(obs.ship0.vel, VScale(Facing0, BULLET_SPEED, ONE))
              IN  /\ b.obj = Integrate(MakeObj(pos0, vel0, obs.ship0.rot, 0),
                                       bounce_edge)
                  /\ b.ttl >= BULLET_TTL_LO /\ b.ttl < BULLET_TTL_HI

\* C8 as stated: with the ship at the arena centre, the bullet is in
\* bullets at the end of the tick at ship.position + facing*20.
C8_FiredBulletAtMuzzle ==
    (Fired /\ obs.ship0.pos = Centre) =>
      /\ Len(bullets) = Len(obs.pruned_b) + 1
      /\ LET b == bullets[Len(bullets)]
         IN  /\ b.obj.pos = VAdd(obs.ship0.pos, VScale(Facing0, MUZZLE_DIST, ONE))
             /\ b.obj.vel = VAdd(obs.ship0.vel, VScale(Facing0, BULLET_SPEED, ONE))
             /\ b.obj.rot = obs.ship0.rot
             /\ b.obj.rot_v = 0
             /\ b.ttl >= BULLET_TTL_LO /\ b.ttl < BULLET_TTL_HI

\* The ship fires from the arena centre, turned away from its first
\* facing and turning again in the tick of the shot; the bullet is there
\* at the end of the tick.
C8_Witness ==
    /\ Fired
    /\ obs.ship0.pos = Centre
    /\ obs.ship0.rot # 0
    /\ ship.rot # obs.ship0.rot
    /\ ~FiredBulletHit
    /\ Len(bullets) = Len(obs.pruned_b) + 1

-----------------------------------------------------------------------------
(* States in mid-flight.  The ttl ranges put the first expiry 192 ticks    *)
(* after a projectile's creation, and a bullet needs some 15 ticks to get  *)
(* from the ship to a crate; SpecPrune and SpecHit therefore start from    *)
(* states the simulation is in later on: projectiles near the end of      *)
(* their ttl, bullets about to enter the collision distance of crates.     *)

\* A projectile created with ttl0 and decremented age times since.
Aged(obj, ttl0, age, tick0) ==
    [obj |-> obj, ttl |-> ttl0 - DELTA * age, ttl0 |-> ttl0, age |-> age,
     tick0 |-> tick0]

\* The sequences over kinds of length at most n.
SeqsUpTo(kinds, n) == UNION {[1..m -> kinds] : m \in 0..n}

\* The state of the simulation that has the given collections, the ship at
\* rest at the centre and the spawn countdown one interval above zero.
Flight(bs, cs, sps) ==
    /\ ship = ObjNew(WIDTH \div 2, HEIGHT \div 2)
    /\ bullets = bs
    /\ crates = cs
    /\ splinters = sps
    /\ crate_spawn_time = CRATE_SPAWN_RATE
    /\ bounce_edge = FALSE
    /\ calls = 0
    /\ obs = NoObs

-----------------------------------------------------------------------------
(* Ttl decay and pruning (SpecPrune).                                      *)

MaxProjectiles == 3
MaxPruneCalls == 2

\* Bullets with 3 and 2 time units left of a ttl of 541 and of 540, and a
\* fresh one; splinters with 2 and 3 units left of 192 and of 193, the
\* first created in an update that was no tick.
OldBullets ==
    {Aged(ObjWith(9600, 19200, BULLET_SPEED, 0, 0, 0), BULLET_TTL_LO + 1, 269, TRUE),
     Aged(ObjWith(14400, 19200, BULLET_SPEED, 0, 0, 0), BULLET_TTL_LO, 269, TRUE),
     Aged(ObjWith(19200, 19200, BULLET_SPEED, 0, 0, 0), BULLET_TTL_HI - 1, 0, TRUE)}
OldSplinters ==
    {Aged(ObjWith(9600, 67200, SPLINTER_DV, 0, 0, 0), SPLINTER_TTL_LO, 95, FALSE),
     Aged(ObjWith(14400, 67200, -SPLINTER_DV, 0, 0, 0), SPLINTER_TTL_LO + 1, 95, TRUE)}

InitPrune ==
    \E bs \in SeqsUpTo(OldBullets, MaxProjectiles),
       sps \in SeqsUpTo(OldSplinters, MaxProjectiles - 1) :
          Flight(bs, << >>, sps)

PruneTick ==
    /\ calls < MaxPruneCalls
    /\ \E keys \in {NoKeys, {"Space"}} :
          Update(TRUE, keys, Rnd(Centre, ZERO, BULLET_TTL_LO, SplinterTtls))

PruneFrame ==
    /\ calls < MaxPruneCalls
    /\ Update(FALSE, NoKeys, Rnd(Centre, ZERO, BULLET_TTL_LO, SplinterTtls))

NextPrune == PruneTick \/ PruneFrame

SpecPrune == InitPrune /\ [][NextPrune]_vars

Alive(p) == p.ttl > 0

\* C3: at the end of every update every bullet and every splinter has
\* ttl > 0; the pruning of a tick removes exactly the elements whose ttl
\* the decrement brought to <= 0 and keeps the others in their order.
C3_PruningRemovesExactlyTheExpired ==
    /\ \A i \in 1..Len(bullets) : bullets[i].ttl > 0
    /\ \A i \in 1..Len(splinters) : splinters[i].ttl > 0
    /\ obs.gate => /\ obs.pruned_b = SelectSeq(obs.decayed_b, Alive)
                   /\ obs.pruned_s = SelectSeq(obs.decayed_s, Alive)

\* In one tick two adjacent bullets expire ahead of one that stays, and a
\* splinter expires behind one that stays.
C3_Witness ==
    /\ obs.gate
    /\ Len(obs.decayed_b) = 3
    /\ ~Alive(obs.decayed_b[1]) /\ ~Alive(obs.decayed_b[2]) /\ Alive(obs.decayed_b[3])
    /\ Len(obs.decayed_s) = 2
    /\ Alive(obs.decayed_s[1]) /\ ~Alive(obs.decayed_s[2])
    /\ obs.pruned_b = << obs.decayed_b[3] >>
    /\ obs.pruned_s = << obs.decayed_s[1] >>

\* The least n with n * d >= t.
CeilDiv(t, d) == (t + d - 1) \div d

\* The number of decrements so far is below ceil(ttl0 / DELTA).
WithinTtl(p) == p.age < CeilDiv(p.ttl0, DELTA)

\* The tick that made the last decrement is one of the first
\* floor(ttl0 / DELTA) ticks at whose end the projectile could be seen
\* (the tick of its creation is the first of them).
WithinFloorTicks(p) ==
    p.age + (IF p.tick0 THEN 1 ELSE 0) <= p.ttl0 \div DELTA

\* C5 as amended: a projectile created with ttl T and not destroyed by a
\* collision is present at the end of the update that creates it and at
\* the end of exactly the first ceil(T / DELTA) - 1 ticks after that
\* update; the tick that follows removes it.
C5_PresentUntilCeilTicks ==
    /\ \A i \in 1..Len(bullets) :
          WithinTtl(bullets[i]) /\ bullets[i].ttl = bullets[i].ttl0 - DELTA * bullets[i].age
    /\ \A i \in 1..Len(splinters) :
          WithinTtl(splinters[i])
             /\ splinters[i].ttl = splinters[i].ttl0 - DELTA * splinters[i].age
    /\ obs.gate => /\ obs.pruned_b = SelectSeq(obs.decayed_b, WithinTtl)
                   /\ obs.pruned_s = SelectSeq(obs.decayed_s, WithinTtl)

\* The same count without the tick of the creation.
WithinFloorTicksAfter(p) == p.age <= p.ttl0 \div DELTA

\* C5 as stated: the projectile is present at the end of exactly
\* floor(T / DELTA) ticks, whether or not the tick of its creation is
\* counted among them.
C5_PresentForFloorTicks ==
    obs.gate =>
       \/ /\ obs.pruned_b = SelectSeq(obs.decayed_b, WithinFloorTicks)
          /\ obs.pruned_s = SelectSeq(obs.decayed_s, WithinFloorTicks)
       \/ /\ obs.pruned_b = SelectSeq(obs.decayed_b, WithinFloorTicksAfter)
          /\ obs.pruned_s = SelectSeq(obs.decayed_s, WithinFloorTicksAfter)

\* A tick removes a bullet of ttl 541 at its 271st decrement and keeps a
\* bullet fired one tick before.
C5_Witness ==
    /\ obs.gate
    /\ \E i \in 1..Len(obs.decayed_b) :
          /\ obs.decayed_b[i].ttl0 = BULLET_TTL_LO + 1
          /\ obs.decayed_b[i].age = 271
          /\ ~Alive(obs.decayed_b[i])
    /\ \E i \in 1..Len(obs.pruned_b) : obs.pruned_b[i].age = 1
    /\ Len(obs.pruned_b) < Len(obs.decayed_b)

-----------------------------------------------------------------------------
(* Bullet/crate destruction (SpecHit).  Three crates at rest in a column,  *)
(* 36 px apart; bullets flying right along the lines midway between two   *)
(* of them, 26.9 px from both before the integration step of the next      *)
(* update and 21.7 px after it; and a bullet far from every crate.         *)

MaxHitBullets == 3
MaxHitCrates == 2
MaxHitCalls == 2

HitCrates ==
    {ObjWith(30720, 27072, 0, 0, 0, 0),
     ObjWith(30720, 30528, 0, 0, 0, 0),
     ObjWith(30720, 33984, 0, 0, 0, 0)}
HitBullets ==
    {Aged(ObjWith(28800, 28800, BULLET_SPEED, 0, 0, 0), BULLET_TTL_LO, 20, TRUE),
     Aged(ObjWith(28800, 32256, BULLET_SPEED, 0, 0, 0), BULLET_TTL_LO, 20, TRUE),
     Aged(ObjWith(76800, 67200, BULLET_SPEED, 0, 0, 0), BULLET_TTL_LO, 20, TRUE)}
HitSplinter ==
    Aged(ObjWith(9600, 67200, SPLINTER_DV, 0, 0, 0), SPLINTER_TTL_HI - 1, 1, TRUE)

\* No crate twice.
Distinct(seq) == \A i, j \in 1..Len(seq) : i # j => seq[i] # seq[j]

InitHit ==
    \E bs \in SeqsUpTo(HitBullets, MaxHitBullets),
       cs \in {c \in SeqsUpTo(HitCrates, MaxHitCrates) : Distinct(c)} :
          Flight(bs, cs, << HitSplinter >>)

HitTick ==
    /\ calls < MaxHitCalls
    /\ Update(TRUE, NoKeys, Rnd(Centre, ZERO, BULLET_TTL_LO, SplinterTtls))

HitFrame ==
    /\ calls < MaxHitCalls
    /\ Update(FALSE, NoKeys, Rnd(Centre, ZERO, BULLET_TTL_LO, SplinterTtls))

NextHit == HitTick \/ HitFrame

SpecHit == InitHit /\ [][NextHit]_vars

\* The bullets of the last update, by index in the list the scan ran over,
\* that found a crate.
HitIndices == {b \in 1..Len(obs.scans) : obs.scans[b].hit # 0}

\* The crate bullet b destroyed.
Destroyed(b) == obs.scans[b].seen[obs.scans[b].hit]

\* The bullets of seq from index i on that found no crate, in their order.
RECURSIVE Missed(_, _)
Missed(seq, i) ==
    IF i > Len(seq) THEN << >>
    ELSE (IF i \in HitIndices THEN << >> ELSE << seq[i] >>) \o Missed(seq, i + 1)

\* C4: if k bullets find an obstacle within the collision distance in one
\* update, exactly k obstacles and k bullets are removed and 4k splinters
\* added; no obstacle is destroyed by two bullets, and the bullets that
\* hit nothing stay in bullets.
C4_DestructionFanOut ==
    calls > 0 =>
      LET k == Cardinality(HitIndices)
      IN  /\ Len(obs.scans) = Len(obs.pre_b)
          /\ Len(crates) = Len(obs.pre_c) - k
          /\ Len(bullets) = Len(obs.pre_b) - k
          /\ Len(splinters) = Len(obs.pre_s) + 4 * k
          /\ \A b \in HitIndices :
                /\ \E c \in 1..Len(obs.pre_c) : obs.pre_c[c] = Destroyed(b)
                /\ \A i \in 1..Len(crates) : crates[i] # Destroyed(b)
                /\ \A e \in HitIndices : e # b => Destroyed(e) # Destroyed(b)
          /\ bullets = Missed(obs.pre_b, 1)

\* Of three bullets two destroy a crate each in one update, and the third
\* stays.
C4_Witness ==
    /\ calls > 0
    /\ Len(obs.pre_b) = 3
    /\ Cardinality(HitIndices) = 2
    /\ Len(bullets) = 1
    /\ Len(splinters) = Len(obs.pre_s) + 8

\* C9 as amended: the marked bullets are removed only after all bullets
\* have been scanned, but a marked obstacle is removed at once: a bullet
\* is tested against the obstacle list of the start of the scan less the
\* obstacles the bullets before it destroyed, the others in their order.
C9_ScanSeesEarlierRemovals ==
    calls > 0 =>
      /\ Len(obs.scans) = Len(obs.pre_b)
      /\ \A b \in 1..Len(obs.scans) :
            obs.scans[b].seen =
               IF b = 1 THEN obs.pre_c
               ELSE RemoveAt(obs.scans[b - 1].seen, obs.scans[b - 1].hit)

\* C9 as stated: every bullet is tested against the obstacle list that
\* existed when the scan began.
C9_ScanSeesStableSnapshot ==
    calls > 0 => \A b \in 1..Len(obs.scans) : obs.scans[b].seen = obs.pre_c

\* A bullet destroys a crate after an earlier bullet destroyed the crate
\* before it in the list: it finds its crate at another index than the
\* one it had when the scan began.
C9_Witness ==
    /\ calls > 0
    /\ \E b \in HitIndices :
          /\ b > 1
          /\ obs.scans[b].seen # obs.pre_c
          /\ obs.pre_c[obs.scans[b].hit] # Destroyed(b)

====
